---- MODULE Spec2Model ----
(***************************************************************************)
(* Model of simple_consumer/consumer.py: SimpleConsumer (the connection    *)
(* coordinator) and SimpleEvent (the event handler with its hooks).        *)
(*                                                                         *)
(* The consumer is a framework class, so the model instantiates it with a  *)
(* small consumer type: the events ChatSend (target for_all, the default)  *)
(* and DirectMessage (target for_user), plus the built-in hidden Error.    *)
(* The channel layer, the transport and the user directory are the         *)
(* environment: a group is a set of channels, group_send appends the       *)
(* message to every member's inbox, and dispatch takes it from there.      *)
(***************************************************************************)
EXTENDS Integers, Sequences, FiniteSets, TLC

(* ------------------------------------------------------------ the world  *)
Conns == {"c1", "c2", "c3"}                       \* channel names
UserOf == [c \in Conns |-> IF c = "c3" THEN "u2" ELSE "u1"]   \* scope['user'].id
KnownUsers == {"u1", "u2"}                        \* the user directory
StaffUsers == {"u1"}                              \* the staff directory

\* Two consumer types run in the process: Chat keeps the default target
\* resolvers, Staff overrides the one for to_user_id.
TypeOf == [c \in Conns |-> IF c = "c3" THEN "Staff" ELSE "Chat"]

\* SimpleConsumer.custom_target_resolver of each consumer type
CustomTargetResolver(type) ==
    IF type = "Staff" THEN [to_user_id |-> "staff"] ELSE [k \in {} |-> "default"]
None == "None"

EventClasses == {"ChatSend", "DirectMessage", "Error"}
Functions == {"inject_user"}      \* attributes that are plain functions
Methods == {"connect"}            \* attributes that are bound methods

\* SimpleEvent.hidden, overridden by SimpleConsumer.Error
Hidden(cls) == cls = "Error"

\* SimpleEvent.target (for_all unless the event class overrides it)
Target(cls) == IF cls = "DirectMessage" THEN "for_user" ELSE "for_all"

\* SimpleEvent.request_payload_type: None for Error (typed = FALSE), else the
\* fields of the payload dataclass, all of them required.
RequestPayloadType(cls) ==
    CASE cls = "ChatSend" -> [typed |-> TRUE, fields |-> {"text"}]
      [] cls = "DirectMessage" -> [typed |-> TRUE, fields |-> {"text", "to_user_id"}]
      [] OTHER -> [typed |-> FALSE, fields |-> {}]

\* utils.camel_to_snake / camel_to_dot on the class names of the model
CamelToSnake(cls) ==
    CASE cls = "ChatSend" -> "chat_send"
      [] cls = "DirectMessage" -> "direct_message"
      [] OTHER -> "error"

CamelToDot(cls) ==
    CASE cls = "ChatSend" -> "chat.send"
      [] cls = "DirectMessage" -> "direct.message"
      [] OTHER -> "error"

\* channels.consumer.get_handler_name: dots become underscores
EventNames == {"chat.send", "direct.message", "error", "Error",
               "inject.user", "connect", "nope"}

GetHandlerName(type) ==
    CASE type = "chat.send" -> "chat_send"
      [] type = "direct.message" -> "direct_message"
      [] type = "inject.user" -> "inject_user"
      [] OTHER -> type

\* hide_events: the attribute names under which event classes are registered
\* at construction: every non-hidden event class under its snake-case name.
HideEvents == {CamelToSnake(cls) : cls \in {e \in EventClasses : ~Hidden(e)}}

\* getattr(self, name, None) on a constructed consumer
GetAttr(name) ==
    IF name \in EventClasses THEN [kind |-> "class", cls |-> name]
    ELSE IF name \in HideEvents
         THEN [kind |-> "class",
               cls |-> CHOOSE e \in EventClasses : CamelToSnake(e) = name]
    ELSE IF name \in Functions THEN [kind |-> "function", cls |-> None]
    ELSE IF name \in Methods THEN [kind |-> "method", cls |-> None]
    ELSE [kind |-> "None", cls |-> None]

(* --------------------------------------------------------------- inputs  *)
PayloadKeys == {"text", "to_user_id", "junk"}

Payloads ==
    {[keys |-> k, to |-> t] : k \in SUBSET PayloadKeys, t \in {"u2", "u42"}}

\* The frames a client sends.  The routing of a frame depends on the payload
\* only for registered events, so the other names are sent with an empty
\* payload; envelope is "plain", "system" (the client supplies a system key),
\* "extra" (an unknown top-level key) or "noevent" (no event key).
Frames ==
    {[event |-> "chat.send", payload |-> [keys |-> k, to |-> "u2"],
      envelope |-> "plain"] : k \in {{"text"}, {}, {"text", "junk"}}}
    \cup
    {[event |-> "direct.message", payload |-> p, envelope |-> "plain"] :
        p \in {q \in Payloads : /\ q.keys \in {{}, {"text"}, {"text", "to_user_id"}}
                                /\ ("to_user_id" \notin q.keys => q.to = "u2")}}
    \cup
    {[event |-> n, payload |-> [keys |-> {}, to |-> "u2"],
      envelope |-> "plain"] : n \in EventNames \ {"chat.send", "direct.message"}}
    \cup
    {[event |-> "chat.send", payload |-> [keys |-> {"text"}, to |-> "u2"],
      envelope |-> e] : e \in {"system", "extra", "noevent"}}

(* ------------------------------------------------------------- variables *)
VARIABLES
    channel_layer,    \* TRUE iff a channel layer is configured
    broadcast_group,  \* TRUE iff the consumer type names a broadcast group
    state,            \* per connection: "new", "open", "closed", "crashed"
    members,          \* the channels the layer holds in the broadcast group
    inbox,            \* per connection: messages delivered, not yet dispatched
    disconnected,     \* connections whose before_disconnect hook has run
    TargetResolver,   \* the module-level resolver table: field -> resolver
    lastRecv,         \* what the latest receive_json or fire_broadcast did
                      \* (handler: the event class whose consumer attribute
                      \* it set to its own connection)
    passes            \* the dispatches completed since lastRecv was written

vars == <<channel_layer, broadcast_group, state, members, inbox, disconnected,
          TargetResolver, lastRecv, passes>>

(* -------------------------------------------------------- envelope model *)
\* get_systems without the user of the scope
GetSystemsAnonymous(c, id) ==
    [initiator_channel |-> c, initiator_user_id |-> None, event_id |-> id]

\* SimpleConsumer.get_systems: a new EventSystem with a fresh event id
GetSystems(c, id) ==
    [initiator_channel |-> c, initiator_user_id |-> UserOf[c], event_id |-> id]

\* send_json without the pop of system
SendJsonKeepSystem(content) == content

\* SimpleConsumer.send_json: the frame that goes to the peer, system popped
SendJson(content) ==
    [k \in DOMAIN content \ {"system"} |-> content[k]]

\* uuid.uuid4(): an id no envelope in use carries (the least one, so that ids
\* are reused once the envelope that carried them is gone).
Uuid4(used) ==
    CHOOSE id \in 1..(Cardinality(used) + 1) :
        id \notin used /\ \A j \in 1..(id - 1) : j \in used

\* The event ids of the messages the layer still holds.
LiveIds ==
    UNION {{inbox[c][i].system.event_id : i \in 1..Len(inbox[c])} : c \in Conns}

\* The running effect of one handler on its own connection: the frames it
\* has transmitted and the event ids in use.
Ctx(used) == [out |-> <<>>, used |-> used, reports |-> 0, recursed |-> FALSE]

\* parse_content keeping the hidden flag of the class
HiddenKept(cls, given) == Hidden(cls)

\* self.hidden as SimpleEvent.__init__ reads it after parse_content: an event
\* built without content has the flag reset, one built from content keeps
\* the flag of its class.
HiddenAfterParseContent(cls, given) == IF given THEN Hidden(cls) ELSE FALSE

\* SimpleConsumer.Error(payload=..., consumer=self).fire(): the event is built
\* without content, so parse_content synthesizes the content with fresh
\* system data, and fire sends it through send_json.  Were the event still
\* hidden after parse_content, __init__ would build a further Error in the
\* same way, and so on until the interpreter gives up: no frame is sent.
FireError(ctx, c, kind, field) ==
    LET content == [name |-> CamelToDot("Error"),
                    payload |-> [kind |-> kind, field |-> field],
                    system |-> GetSystems(c, Uuid4(ctx.used))]
    IN  IF HiddenAfterParseContent("Error", FALSE)
        THEN [ctx EXCEPT !.reports = @ + 1, !.recursed = TRUE]
        ELSE [ctx EXCEPT !.out = Append(@, SendJson(content)),
                         !.used = @ \cup {content.system.event_id},
                         !.reports = @ + 1]

(* --------------------------------------------------- signature validator *)
\* What building a dataclass with the given fields from the keys raises.
\* Python reports an unexpected keyword before it looks for missing ones, and
\* names every missing argument in one message.
Construct(fields, keys) ==
    LET unexpected == keys \ fields
        missing == fields \ keys
    IN  IF unexpected # {}
        THEN [exc |-> "TypeError", msg |-> "unexpected",
              field |-> CHOOSE k \in unexpected : TRUE]
        ELSE IF Cardinality(missing) = 1
        THEN [exc |-> "TypeError", msg |-> "missing",
              field |-> CHOOSE k \in missing : TRUE]
        ELSE IF Cardinality(missing) > 1
        THEN [exc |-> "TypeError", msg |-> "missing_many", field |-> None]
        ELSE [exc |-> None, msg |-> "ok", field |-> None]

\* An Event constructor that lets a client-supplied system key through
ConstructEventTakingSystem(envelope) ==
    CASE envelope = "extra" -> [exc |-> "TypeError", msg |-> "unexpected",
                                field |-> "extra"]
      [] OTHER -> [exc |-> None, msg |-> "ok", field |-> None]

\* Event(**content, system=self.get_systems()): a client-supplied system key
\* collides with the keyword ("got multiple values for keyword argument"),
\* an unknown top-level key is an unexpected keyword.
ConstructEvent(envelope) ==
    CASE envelope = "system" -> [exc |-> "TypeError", msg |-> "multiple",
                                 field |-> "system"]
      [] envelope = "extra" -> [exc |-> "TypeError", msg |-> "unexpected",
                                field |-> "extra"]
      [] OTHER -> [exc |-> None, msg |-> "ok", field |-> None]

\* SimpleConsumer.check_signature on the outcome r of calling f.  Returns the
\* new context, whether data is set, the error flag, and the exception that
\* leaves check_signature (None when it returns normally).
CheckSignature(ctx, c, r) ==
    IF r.exc = None
    THEN [ctx |-> ctx, data |-> TRUE, error |-> FALSE, raised |-> None]
    ELSE IF r.exc # "TypeError"
    THEN [ctx |-> ctx, data |-> FALSE, error |-> FALSE, raised |-> r.exc]
    ELSE IF r.msg = "missing"
    THEN [ctx |-> FireError(ctx, c, "PayloadSignatureWrong", r.field),
          data |-> FALSE, error |-> TRUE, raised |-> None]
    ELSE IF r.msg = "missing_many"
         \* ' missing ' matches, but the text reads "arguments: ", so
         \* split('argument: ')[1] raises IndexError inside the handler
    THEN [ctx |-> ctx, data |-> FALSE, error |-> FALSE, raised |-> "IndexError"]
    ELSE IF r.msg = "unexpected"
    THEN [ctx |-> FireError(ctx, c, "ActionSignatureWrong", r.field),
          data |-> FALSE, error |-> TRUE, raised |-> None]
    ELSE [ctx |-> ctx, data |-> FALSE, error |-> FALSE, raised |-> None]

(* -------------------------------------------------------- routing engine *)
\* What the hooks of the model's event classes return (SimpleEvent's own
\* hooks return nothing; a subclass returns an Event or a plain mapping):
\* ChatSend answers the initiator with an Event and the target with a plain
\* mapping, DirectMessage answers the target only, Error answers nobody.
HookReturn(cls, role, content) ==
    CASE cls = "ChatSend" /\ role = "initiator" ->
            [some |-> TRUE,
             event |-> [name |-> "chat.sent",
                        payload |-> [kind |-> "data", field |-> None],
                        system |-> content.system]]
      [] cls = "ChatSend" /\ role = "target" ->
            [some |-> TRUE,
             event |-> [name |-> "chat.new",
                        payload |-> [kind |-> "data", field |-> None]]]
      [] cls = "DirectMessage" /\ role = "target" ->
            [some |-> TRUE,
             event |-> [name |-> "direct.new",
                        payload |-> [kind |-> "data", field |-> None],
                        system |-> content.system]]
      [] OTHER -> [some |-> FALSE, event |-> [name |-> None]]

\* signatures.TargetResolver as imported: to_user_id is looked up in the
\* user directory.
DefaultTargetResolver == [to_user_id |-> "default"]

\* TargetResolver.update(custom): dict.update on the shared table
Update(table, custom) ==
    [k \in DOMAIN table \cup DOMAIN custom |->
        IF k \in DOMAIN custom THEN custom[k] ELSE table[k]]

\* Message.target_user: the resolver of the populated lookup field decides
TargetUser(table, payload) ==
    LET directory == IF table.to_user_id = "staff" THEN StaffUsers ELSE KnownUsers
    IN  IF "to_user_id" \in payload.keys /\ payload.to \in directory
        THEN payload.to ELSE None

\* Message.is_initiator: the acting user is the event's initiator
IsInitiator(user, system) == user = system.initiator_user_id

\* Message.is_target: everybody for a broadcast, the resolved user otherwise
IsTarget(user, target, target_user) ==
    \/ target = "for_all"
    \/ target = "for_user" /\ target_user = user

\* SimpleConsumer.parse_message with the Message properties it feeds; table
\* is TargetResolver after the update with the consumer's own overrides.
ParseMessage(c, table, target, payload, content) ==
    LET target_user == IF target = "for_user" THEN TargetUser(table, payload) ELSE None
    IN  [system |-> [initiator_channel |-> content.system.initiator_channel,
                     initiator_user_id |-> content.system.initiator_user_id,
                     event_id |-> content.system.event_id,
                     receiver_channel |-> c],
         user |-> UserOf[c],
         target |-> target,
         target_resolver |-> table,
         target_user |-> target_user,
         is_initiator |-> IsInitiator(UserOf[c], content.system),
         is_target |-> IsTarget(UserOf[c], target, target_user)]

\* No Message was built
NoMessage ==
    [system |-> [initiator_channel |-> None, initiator_user_id |-> None,
                 event_id |-> 0, receiver_channel |-> None],
     user |-> None, target |-> None, target_resolver |-> DefaultTargetResolver,
     target_user |-> None, is_initiator |-> FALSE, is_target |-> FALSE]

\* The state a pass threads through its steps.
PassStart(ctx) ==
    [out |-> ctx.out, used |-> ctx.used, reports |-> ctx.reports,
     recursed |-> ctx.recursed, trace |-> <<>>, before_activated |-> FALSE,
     activations |-> 0, fault |-> None, routed |-> FALSE, parsed |-> FALSE,
     message |-> NoMessage, table |-> TargetResolver]

\* The test of line 273 with is_target in the place of is_initiator
RecipientMissingForTarget(message) ==
    /\ message.target = "for_user" /\ message.target_user = None
    /\ message.is_target

\* send_broadcast, line 273: a direct event without a resolved user, seen by
\* the initiator
RecipientMissing(message) ==
    /\ message.target = "for_user" /\ message.target_user = None
    /\ message.is_initiator

\* before() without the test of the flag
BeforeIgnoringFlag(st, do_before) == do_before

\* before() inside send_broadcast: TRUE iff this call runs do_before
Before(st, do_before) == do_before /\ ~st.before_activated

\* do_for calling do() first and before() after it
DoForHookFirst(st, role, cls, content, do_before) ==
    LET ret == HookReturn(cls, role, content)
        s1 == [st EXCEPT !.trace = Append(@, role)]
        s2 == IF ret.some
              THEN [s1 EXCEPT !.out = Append(@, SendJson(ret.event)),
                              !.trace = Append(@, "send_json")]
              ELSE s1
        activated == Before(s2, do_before)
        s3 == IF activated
              THEN [s2 EXCEPT !.trace = Append(@, "before_catch"),
                              !.before_activated = TRUE,
                              !.activations = @ + 1]
              ELSE s2
    IN  IF s3.before_activated /\ ~activated
        THEN [s3 EXCEPT !.before_activated = FALSE]
        ELSE s3

\* do_for(do) inside send_broadcast
DoFor(st, role, cls, content, do_before) ==
    LET activated == Before(st, do_before)
        s1 == IF activated
              THEN [st EXCEPT !.trace = Append(@, "before_catch"),
                              !.before_activated = TRUE,
                              !.activations = @ + 1]
              ELSE st
        ret == HookReturn(cls, role, content)
        s2 == [s1 EXCEPT !.trace = Append(@, role)]
        s3 == IF ret.some
              THEN [s2 EXCEPT !.out = Append(@, SendJson(ret.event)),
                              !.trace = Append(@, "send_json")]
              ELSE s2
    IN  IF s3.before_activated /\ ~activated
        THEN [s3 EXCEPT !.before_activated = FALSE]
        ELSE s3

\* SimpleConsumer.parse_payload: the generic Payload always builds; the typed
\* one goes through check_signature.
ParsePayload(ctx, c, content, payload_type) ==
    IF payload_type.typed
    THEN CheckSignature(ctx, c, Construct(payload_type.fields, content.payload.keys))
    ELSE [ctx |-> ctx, data |-> TRUE, error |-> FALSE, raised |-> None]

\* SimpleConsumer.send_broadcast as SimpleEvent.fire_client calls it: every
\* hook is a bound method, so do_before, do_for_initiator and do_for_target
\* are all set.  An exception is caught by the safe decorator.
SendBroadcast(ctx, c, content, cls, do_before) ==
    LET pp == ParsePayload(ctx, c, content, RequestPayloadType(cls))
        st0 == PassStart(pp.ctx)
        table == Update(TargetResolver, CustomTargetResolver(TypeOf[c]))
        message == ParseMessage(c, table, Target(cls), content.payload, content)
        st1 == [st0 EXCEPT !.parsed = TRUE, !.message = message, !.table = table]
        s1 == IF message.is_initiator
              THEN DoFor([st1 EXCEPT !.routed = TRUE], "initiator", cls, content, do_before)
              ELSE [st1 EXCEPT !.routed = TRUE]
        s2 == IF message.is_target
              THEN DoFor(s1, "target", cls, content, do_before)
              ELSE s1
    IN  IF pp.raised # None THEN [st0 EXCEPT !.fault = pp.raised]
        ELSE IF pp.error THEN st0
        ELSE IF RecipientMissing(message)
        THEN LET e == FireError(pp.ctx, c, "RecipientNotExist", None)
             IN  [st1 EXCEPT !.out = e.out, !.used = e.used,
                             !.reports = e.reports, !.recursed = e.recursed]
        ELSE s2

\* SimpleEvent.__init__ with content, then fire_client: a hidden event class
\* fires ActionNotExist and returns from __init__, and fire_client still runs.
FireClient(ctx, c, content, cls) ==
    LET c1 == IF HiddenAfterParseContent(cls, TRUE)
              THEN FireError(ctx, c, "ActionNotExist", None) ELSE ctx
    IN  SendBroadcast(c1, c, content, cls, TRUE)

\* SimpleConsumer.dispatch of a message taken from the channel
DispatchResult(ctx, c, content) ==
    LET handler == GetAttr(GetHandlerName(content.type))
    IN  CASE handler.kind = "class" -> FireClient(ctx, c, content, handler.cls)
          [] handler.kind = "function" -> PassStart(ctx)
          [] OTHER -> [PassStart(ctx) EXCEPT !.fault = "TypeError"]

(* ------------------------------------------------- connection coordinator *)
\* Event.to_channels() of the event receive_json builds for frame f
ToChannels(c, f, id) ==
    [type |-> f.event, payload |-> f.payload, system |-> GetSystems(c, id)]

\* action_handler.consumer = self: a class or a function takes the attribute,
\* a bound method refuses it with AttributeError.
SetConsumerRaises(handler) == handler.kind = "method"

RecvResult(ctx, published, fault) ==
    [ctx |-> ctx, published |-> published, fault |-> fault, absent |-> FALSE,
     handler |-> None]

\* The part of receive_json after check_signature returned without error:
\* event is TRUE iff check_signature returned an Event (not None).
Route(ctx, c, f, id, event) ==
    LET action_handler == GetAttr(GetHandlerName(f.event))
    IN  IF event /\ action_handler.kind # "None" /\ SetConsumerRaises(action_handler)
        THEN RecvResult(ctx, <<>>, "AttributeError")
        ELSE IF event /\ action_handler.kind = "None"
        THEN RecvResult(FireError(ctx, c, "ActionNotExist", None), <<>>, None)
        ELSE LET r == IF broadcast_group
                      THEN IF event
                           THEN RecvResult(ctx, <<ToChannels(c, f, id)>>, None)
                           ELSE RecvResult(ctx, <<>>, "AttributeError")  \* None.to_channels()
                      ELSE RecvResult(ctx, <<>>, None)
             IN  IF event /\ action_handler.kind = "class"
                 THEN [r EXCEPT !.handler = action_handler.cls]
                 ELSE r

\* SimpleConsumer.receive_json on frame f; the faults are caught by the safe
\* decorator of receive.
ReceiveJsonResult(c, f) ==
    IF ~channel_layer
    THEN RecvResult(FireError(Ctx(LiveIds), c, "ChannelLayerDisabled", None), <<>>, None)
    ELSE IF f.envelope = "noevent"
    THEN RecvResult(Ctx(LiveIds), <<>>, "KeyError")         \* content.pop('event')
    ELSE LET id == Uuid4(LiveIds)                            \* get_systems()
             cs == CheckSignature(Ctx(LiveIds \cup {id}), c, ConstructEvent(f.envelope))
         IN  IF cs.raised # None THEN RecvResult(cs.ctx, <<>>, cs.raised)
             ELSE IF cs.error THEN RecvResult(cs.ctx, <<>>, None)
             ELSE [Route(cs.ctx, c, f, id, cs.data) EXCEPT !.absent = ~cs.data]

\* channel_layer.group_send: one copy for every channel of the group.  The
\* copy for a channel whose consumer has stopped is never taken from the
\* layer, so the model does not keep it.
GroupSend(published) ==
    [m \in Conns |-> IF m \in members /\ state[m] = "open"
                     THEN inbox[m] \o published ELSE inbox[m]]

NoFrame == [event |-> None, payload |-> [keys |-> {}, to |-> None], envelope |-> None]

NoRecv == [via |-> None, conn |-> None, frame |-> NoFrame, out |-> <<>>,
           published |-> <<>>, fault |-> None, absent |-> FALSE, group |-> {},
           reports |-> 0, recursed |-> FALSE, handler |-> None]

Init ==
    /\ channel_layer \in BOOLEAN
    /\ broadcast_group \in BOOLEAN
    /\ state = [c \in Conns |-> "new"]
    /\ members = {}
    /\ inbox = [c \in Conns |-> <<>>]
    /\ disconnected = {}
    /\ TargetResolver = DefaultTargetResolver
    /\ lastRecv = NoRecv
    /\ passes = {}

\* SimpleConsumer.connect (after the auth gate let the connection in):
\* join_group needs the channel layer as soon as a group is configured.
Connect(c) ==
    /\ state[c] = "new"
    /\ IF broadcast_group /\ ~channel_layer
       THEN /\ state' = [state EXCEPT ![c] = "crashed"]
            /\ UNCHANGED members
       ELSE /\ state' = [state EXCEPT ![c] = "open"]
            /\ members' = IF broadcast_group THEN members \cup {c} ELSE members
    /\ UNCHANGED <<channel_layer, broadcast_group, inbox, disconnected,
                   TargetResolver, lastRecv, passes>>

\* SimpleConsumer.disconnect: the before_disconnect hook and nothing else, so
\* the channel stays in the group.  The consumer stops, and what the layer
\* still holds for it is never dispatched.
Disconnect(c) ==
    /\ state[c] = "open"
    /\ state' = [state EXCEPT ![c] = "closed"]
    /\ disconnected' = disconnected \cup {c}
    /\ inbox' = [inbox EXCEPT ![c] = <<>>]
    /\ UNCHANGED <<channel_layer, broadcast_group, members, TargetResolver,
                   lastRecv, passes>>

\* The published events are followed one at a time: the next frame is taken
\* up once every running consumer has dispatched what the layer holds for it.
Quiescent == \A m \in Conns : state[m] = "open" => inbox[m] = <<>>

\* SimpleConsumer.receive_json(content) for a frame from the peer of c
ReceiveJson(c, f) ==
    /\ state[c] = "open"
    /\ Quiescent
    /\ LET r == ReceiveJsonResult(c, f)
       IN  /\ inbox' = GroupSend(r.published)
           /\ lastRecv' = [via |-> "receive_json", conn |-> c, frame |-> f,
                           out |-> r.ctx.out,
                           published |-> r.published, fault |-> r.fault,
                           absent |-> r.absent,
                           group |-> IF r.published = <<>> THEN {} ELSE members,
                           reports |-> r.ctx.reports, recursed |-> r.ctx.recursed,
                           handler |-> r.handler]
    /\ passes' = {}
    /\ UNCHANGED <<channel_layer, broadcast_group, state, members, disconnected,
                   TargetResolver>>

\* The envelope an event class builds for itself in parse_content when it is
\* constructed without content, as Event.to_channels() hands it to the layer
DirectContent(c, cls, id) ==
    [type |-> CamelToDot(cls), payload |-> [keys |-> {}, to |-> None],
     system |-> GetSystems(c, id)]

\* cls(consumer=self).fire_broadcast() called by the application on the
\* consumer of c: the event is built without content (so the hidden check of
\* __init__ does not fire) and send_to_group hands it to the group.  Without
\* a channel layer or a group there is nothing to call group_send on.
FireBroadcast(c, cls) ==
    /\ state[c] = "open"
    /\ Quiescent
    /\ LET ok == channel_layer /\ broadcast_group /\ ~HiddenAfterParseContent(cls, FALSE)
           published == IF ok THEN <<DirectContent(c, cls, Uuid4(LiveIds))>> ELSE <<>>
       IN  /\ inbox' = GroupSend(published)
           /\ lastRecv' = [NoRecv EXCEPT
                             !.via = "fire_broadcast", !.conn = c,
                             !.frame = [event |-> CamelToDot(cls),
                                        payload |-> [keys |-> {}, to |-> None],
                                        envelope |-> "direct"],
                             !.published = published,
                             !.fault = IF ok THEN None ELSE "Error",
                             !.group = IF ok THEN members ELSE {}]
    /\ passes' = {}
    /\ UNCHANGED <<channel_layer, broadcast_group, state, members, disconnected,
                   TargetResolver>>

\* SimpleConsumer.dispatch(content) of the next message the layer delivered
\* to c.  A fault outside send_broadcast is not caught and ends the consumer.
Dispatch(c) ==
    /\ state[c] = "open"
    /\ inbox[c] # <<>>
    /\ LET content == Head(inbox[c])
           r == DispatchResult(Ctx(LiveIds), c, content)
           pass == [conn |-> c, type |-> content.type,
                    cls |-> GetAttr(GetHandlerName(content.type)).cls,
                    payload |-> content.payload,
                    event_id |-> content.system.event_id,
                    initiator_channel |-> content.system.initiator_channel,
                    initiator_user_id |-> content.system.initiator_user_id,
                    out |-> r.out, trace |-> r.trace,
                    before_activated |-> r.before_activated,
                    activations |-> r.activations, fault |-> r.fault,
                    routed |-> r.routed, parsed |-> r.parsed,
                    message |-> r.message, table_before |-> TargetResolver,
                    reports |-> r.reports, recursed |-> r.recursed]
       IN  /\ state' = [state EXCEPT ![c] = IF r.fault = "TypeError"
                                            THEN "crashed" ELSE @]
           /\ inbox' = [inbox EXCEPT ![c] = IF r.fault = "TypeError"
                                            THEN <<>> ELSE Tail(@)]
           /\ TargetResolver' = r.table
           /\ passes' = passes \cup {pass}
    /\ UNCHANGED <<channel_layer, broadcast_group, members, disconnected, lastRecv>>

Next ==
    \/ \E c \in Conns : Connect(c)
    \/ \E c \in Conns : Disconnect(c)
    \/ \E c \in Conns, f \in Frames : ReceiveJson(c, f)
    \/ \E c \in Conns : Dispatch(c)
    \/ \E c \in Conns, cls \in EventClasses : FireBroadcast(c, cls)

Spec == Init /\ [][Next]_vars

\* A deployment with a channel layer configured
InitLayered == Init /\ channel_layer

SpecLayered == InitLayered /\ [][Next]_vars

(* ----------------------------------------------------------------- claims *)
Range(seq) == {seq[i] : i \in 1..Len(seq)}

Count(seq, x) == Cardinality({i \in 1..Len(seq) : seq[i] = x})

Kinds(out) == [i \in 1..Len(out) |-> out[i].payload.kind]

\* The wire names that reach a registered, non-hidden event handler
RegisteredNames == {n \in EventNames : GetHandlerName(n) \in HideEvents}

Received == lastRecv.via = "receive_json"

\* p is a pass that got to the routing of its roles
Routing(p) == p.routed /\ p.fault = None /\ p.cls \in EventClasses

SelfReceipt(p) ==
    /\ Routing(p)
    /\ Target(p.cls) = "for_all"
    /\ UserOf[p.conn] = p.initiator_user_id

\* C1: in a routing pass of a broadcast (for_all) event on a connection whose
\* user is both the initiator and a target, before_catch runs exactly once and
\* both initiator_catch and target_catch run.
C1_BeforeOnceBothRoles ==
    \A p \in passes :
        SelfReceipt(p) =>
            /\ Count(p.trace, "before_catch") = 1
            /\ "initiator" \in Range(p.trace)
            /\ "target" \in Range(p.trace)

C1_Witness ==
    \E p \in passes : SelfReceipt(p) /\ p.type = "chat.send" /\ p.activations = 1

\* C2: in every routing pass the before-activated flag is set at most once
\* and is clear again when send_broadcast returns, for an initiator-only, a
\* target-only and an initiator-and-target connection alike.
C2_FlagSetOnceAndCleared ==
    \A p \in passes :
        Routing(p) => p.activations <= 1 /\ ~p.before_activated

\* C3: a frame whose event name matches no registered, non-hidden event
\* handler is answered with exactly one ActionNotExist error envelope and
\* nothing is published.
C3_UnknownNameRejected ==
    (Received /\ lastRecv.frame.envelope = "plain"
        /\ lastRecv.frame.event \notin RegisteredNames) =>
        /\ Kinds(lastRecv.out) = <<"ActionNotExist">>
        /\ lastRecv.published = <<>>

\* The request payload of frame f does not fit the shape of its event.
PayloadFailure(f) ==
    Construct(RequestPayloadType(GetAttr(GetHandlerName(f.event)).cls).fields,
              f.payload.keys)

BadPayload(f) ==
    /\ f.envelope = "plain"
    /\ f.event \in RegisteredNames
    /\ PayloadFailure(f).exc # None

\* C4: a frame whose payload lacks a required field or carries an unknown one
\* is answered with exactly one error envelope of the matching kind naming
\* that field, and the frame is not published to the group.
C4_BadPayloadRejected ==
    (Received /\ BadPayload(lastRecv.frame)) =>
        LET fields == RequestPayloadType(
                          GetAttr(GetHandlerName(lastRecv.frame.event)).cls).fields
            keys == lastRecv.frame.payload.keys
        IN  /\ lastRecv.published = <<>>
            /\ Len(lastRecv.out) = 1
            /\ IF keys \ fields # {}
               THEN /\ lastRecv.out[1].payload.kind = "ActionSignatureWrong"
                    /\ lastRecv.out[1].payload.field \in keys \ fields
               ELSE /\ lastRecv.out[1].payload.kind = "PayloadSignatureWrong"
                    /\ lastRecv.out[1].payload.field \in fields \ keys

\* C5: an error envelope caused by an inbound frame goes only to the
\* connection that sent the frame, never to another member of the group.
C5_ErrorsOnlyToSender ==
    \A p \in passes :
        (\E i \in 1..Len(p.out) : p.out[i].name = "error") =>
            p.conn = p.initiator_channel

Unresolved(p) ==
    /\ p.cls = "DirectMessage"
    /\ p.payload.keys = {"text", "to_user_id"}
    /\ p.parsed /\ p.message.target_user = None

\* C6: for a direct-routed event whose lookup resolves to no user, only the
\* initiator connection receives RecipientNotExist (exactly one) and
\* target_catch runs on no connection.
C6_RecipientNotExistOnlyInitiator ==
    \A p \in passes :
        Unresolved(p) =>
            /\ Count(Kinds(p.out), "RecipientNotExist")
                   = (IF p.conn = p.initiator_channel THEN 1 ELSE 0)
            /\ "target" \notin Range(p.trace)

\* C7: closing a connection runs before_disconnect and then takes the
\* connection out of its broadcast group.
C7_DisconnectLeavesGroup ==
    \A c \in Conns :
        state[c] = "closed" => c \in disconnected /\ c \notin members

\* C8: with no broadcast group configured, a frame naming a registered event
\* is accepted, nothing is published and the sender receives no frame,
\* whatever the payload and whether or not a channel layer is configured.
C8_NoGroupSilent ==
    (Received /\ ~broadcast_group /\ lastRecv.frame.envelope = "plain"
        /\ lastRecv.frame.event \in RegisteredNames) =>
        /\ lastRecv.out = <<>>
        /\ lastRecv.published = <<>>
        /\ lastRecv.fault = None

\* receive_json would hand frame f to the group
WouldPublish(f) ==
    /\ broadcast_group
    /\ f.envelope = "plain"
    /\ f.event \in RegisteredNames

\* C9: ChannelLayerDisabled is emitted exactly when a group publish is
\* attempted with no channel layer configured; a frame that would not be
\* published never produces it.
C9_LayerDisabledOnlyOnPublish ==
    Received =>
        (("ChannelLayerDisabled" \in Range(Kinds(lastRecv.out)))
            <=> (~channel_layer /\ WouldPublish(lastRecv.frame)))

\* Building the event of frame f fails, and not for a missing or an
\* unexpected field.
OtherConstructionFailure(f) ==
    /\ f.envelope # "noevent"
    /\ ConstructEvent(f.envelope).exc # None
    /\ ConstructEvent(f.envelope).msg \notin {"missing", "missing_many", "unexpected"}

\* C10: a construction failure that is neither a missing-field nor an
\* unexpected-field failure leaves check_signature as a fault: processing of
\* the frame never goes on with an absent event and an error flag of false.
C10_OtherFailurePropagates ==
    (Received /\ channel_layer /\ OtherConstructionFailure(lastRecv.frame)) =>
        /\ lastRecv.fault = "TypeError"
        /\ ~lastRecv.absent

\* The error envelopes among the frames of out
Errors(out) == {i \in 1..Len(out) : out[i].name = "error"}

\* p is a pass over a registered, non-hidden event in which before_catch ran
RanBefore(p) == p.type \in RegisteredNames /\ "before_catch" \in Range(p.trace)

\* C11: when one published event (one event id) is evaluated by several
\* member connections, before_catch runs exactly once in total across all
\* their passes, not once per connection that is initiator or target.
C11_BeforeOncePerEvent ==
    \A p, q \in passes :
        (p.event_id = q.event_id /\ RanBefore(p) /\ RanBefore(q)) => p = q

\* C12: every frame transmitted to a peer through send_json (an error
\* envelope, a directly fired event, an envelope returned by a role hook as
\* an Event or as a plain mapping) carries no system metadata, while the
\* envelope handed to the group publish keeps it.
C12_SystemStrippedOnTheWire ==
    /\ \A i \in 1..Len(lastRecv.out) : "system" \notin DOMAIN lastRecv.out[i]
    /\ \A p \in passes : \A i \in 1..Len(p.out) : "system" \notin DOMAIN p.out[i]
    /\ \A i \in 1..Len(lastRecv.published) :
           "system" \in DOMAIN lastRecv.published[i]
    /\ \A c \in Conns : \A i \in 1..Len(inbox[c]) : "system" \in DOMAIN inbox[c][i]

C12_Witness ==
    /\ lastRecv.published # <<>>
    /\ \E p \in passes :
           /\ p.cls = "ChatSend"
           /\ [i \in 1..Len(p.out) |-> p.out[i].name] = <<"chat.sent", "chat.new">>

\* C13: routing passes of different connections share no mutable state: the
\* target-resolver table used in a pass consists only of the defaults plus
\* the overrides of the connection's own type, and a pass of a connection of
\* another type never changes it.
C13_TableOwnOverridesOnly ==
    \A p \in passes :
        (p.parsed /\ p.type \in RegisteredNames) =>
            p.message.target_resolver
                = Update(DefaultTargetResolver, CustomTargetResolver(TypeOf[p.conn]))

\* A step in which a receive_json or a routing pass answers with one of the
\* classified error envelopes
FaultStep ==
    \/ /\ lastRecv' # lastRecv
       /\ lastRecv'.via = "receive_json"
       /\ Errors(lastRecv'.out) # {}
    \/ \E p \in passes' \ passes :
           p.type \in RegisteredNames /\ Errors(p.out) # {}

C15_UnresolvedAbortsPass ==
    \A p \in passes :
        (/\ p.parsed
         /\ p.message.target = "for_user"
         /\ p.message.target_user = None
         /\ p.message.is_initiator) =>
            /\ p.trace = <<>>
            /\ Kinds(p.out) = <<"RecipientNotExist">>

C15_Witness ==
    \E p \in passes :
        /\ p.parsed
        /\ p.message.target = "for_user"
        /\ p.message.target_user = None
        /\ p.message.is_initiator
        /\ p.conn = lastRecv.conn
        /\ p.payload.to = "u42"

Roles == {"initiator", "target"}

\* A pass on a connection that is neither the initiator nor a target
Bystander(p) == p.parsed /\ ~p.message.is_initiator /\ ~p.message.is_target

\* C16: within one pass before_catch precedes every role hook, initiator_catch
\* and the send of its envelope precede target_catch and the send of its
\* envelope, an envelope returned by a hook is sent on the connection running
\* the pass, and a connection that is neither initiator nor target runs no
\* hook and sends nothing.
C16_OrderWithinPass ==
    \A p \in passes :
        LET t == p.trace
        IN  /\ \A i, j \in 1..Len(t) :
                   (t[i] = "before_catch" /\ t[j] \in Roles) => i < j
            /\ \A i, j \in 1..Len(t) :
                   (t[i] = "initiator" /\ t[j] = "target") => i < j
            /\ \A i \in 1..Len(t) :
                   t[i] = "send_json" => (i > 1 /\ t[i - 1] \in Roles)
            /\ \A i, j \in 1..Len(t) :
                   (t[i] = "send_json" /\ t[i - 1] = "initiator" /\ t[j] = "target")
                       => i < j
            /\ Len(p.out) = Count(t, "send_json") + Cardinality(Errors(p.out))
            /\ Bystander(p) => (t = <<>> /\ p.out = <<>>)

C16_Witness ==
    \E p \in passes :
        /\ p.trace = <<"before_catch", "initiator", "send_json", "target", "send_json">>
        /\ [i \in 1..Len(p.out) |-> p.out[i].name] = <<"chat.sent", "chat.new">>

\* C17: for one inbound frame the system metadata is generated once by the
\* receiving connection, and every member connection's pass over the
\* published message sees the same event id, initiator connection and
\* initiator user, with the receiver connection of its message its own.
C17_SameSystemEveryPass ==
    Received =>
        \A p \in passes :
            p.parsed =>
                /\ Len(lastRecv.published) = 1
                /\ p.message.system.event_id = lastRecv.published[1].system.event_id
                /\ p.message.system.initiator_channel = lastRecv.conn
                /\ p.message.system.initiator_user_id = UserOf[lastRecv.conn]
                /\ p.message.system.receiver_channel = p.conn

C17_Witness ==
    /\ Received
    /\ \E p, q \in passes :
           /\ p.parsed /\ q.parsed
           /\ p.conn = lastRecv.conn
           /\ q.conn # lastRecv.conn
           /\ UserOf[q.conn] # UserOf[lastRecv.conn]

\* C18: the system metadata of every envelope receive_json publishes is the
\* one synthesized for the connection that received the frame, and a frame
\* that supplies its own system field is never published.
C18_PublishedSystemIsSynthesized ==
    Received =>
        /\ \A i \in 1..Len(lastRecv.published) :
               /\ lastRecv.published[i].system.initiator_channel = lastRecv.conn
               /\ lastRecv.published[i].system.initiator_user_id = UserOf[lastRecv.conn]
        /\ lastRecv.frame.envelope = "system" => lastRecv.published = <<>>

C18_Witness ==
    /\ Received
    /\ channel_layer /\ broadcast_group
    /\ lastRecv.frame.envelope = "system"
    /\ lastRecv.published = <<>>

\* C19: reporting a fault terminates: building and firing the hidden Error
\* event without content sends exactly one frame and never sets off the
\* hidden-event check that would build a further Error.
C19_ErrorReportSendsOneFrame ==
    /\ Cardinality(Errors(lastRecv.out)) = lastRecv.reports
    /\ ~lastRecv.recursed
    /\ \A p \in passes :
           /\ Cardinality(Errors(p.out)) = p.reports
           /\ ~p.recursed

C19_Witness ==
    /\ lastRecv.reports = 1
    /\ Kinds(lastRecv.out) = <<"ActionNotExist">>

\* C20: a message delivered to dispatch whose type names no attribute of the
\* consumer runs no hook and sends nothing, and dispatch does not fault.
C20_UnknownTypeIgnored ==
    \A p \in passes :
        GetAttr(GetHandlerName(p.type)).kind = "None" =>
            /\ p.fault = None
            /\ p.trace = <<>>
            /\ p.out = <<>>
            /\ state[p.conn] # "crashed"

====
